---- MODULE Spec2Model ----
(***************************************************************************)
(* Model of the scam honeypot's turn pipeline: the in-memory session       *)
(* store, detect_scam's extraction / scoring / classification, the         *)
(* sophistication score, the reply step and the callback gate of           *)
(* honeypot_message.                                                       *)
(*                                                                         *)
(* Confidence is kept in tenths (every weight of detect_scam is a multiple *)
(* of 0.1 and the stored value is round(min(1.0, c), 2)).                  *)
(***************************************************************************)
EXTENDS Integers, Sequences, FiniteSets, TLC

(***************************************************************************)
(* Text primitives: Python's str.lower, "in", str.split and the regular    *)
(* expressions of detect_scam, computed on the characters of the message.  *)
(***************************************************************************)
Char(s, i) == SubSeq(s, i, i)

DigitChars == {"0", "1", "2", "3", "4", "5", "6", "7", "8", "9"}

UpperAlphabet == "ABCDEFGHIJKLMNOPQRSTUVWXYZ"

LowerAlphabet == "abcdefghijklmnopqrstuvwxyz"

UpperChars == {Char(UpperAlphabet, i) : i \in 1..26}

LowerChars == {Char(LowerAlphabet, i) : i \in 1..26}

LetterChars == UpperChars \cup LowerChars

\* \w of the re module (ASCII part)
WordChars == LetterChars \cup DigitChars \cup {"_"}

\* the class [a-zA-Z0-9.\-_] of the UPI pattern
UpiLocalChars == LetterChars \cup DigitChars \cup {".", "-", "_"}

\* \s of the re module and the separators of str.split()
SpaceChars == {" ", "\t", "\n", "\r"}

LowerChar(c) ==
    IF c \in UpperChars
    THEN Char(LowerAlphabet, CHOOSE i \in 1..26 : Char(UpperAlphabet, i) = c)
    ELSE c

RECURSIVE LowerFrom(_, _)
LowerFrom(s, i) ==
    IF i > Len(s) THEN "" ELSE LowerChar(Char(s, i)) \o LowerFrom(s, i + 1)

\* str.lower()
Lower(s) == LowerFrom(s, 1)

\* k in s (substring test)
Contains(s, k) ==
    \E i \in 1..(Len(s) - Len(k) + 1) : SubSeq(s, i, i + Len(k) - 1) = k

\* any(w in s for w in ks)
ContainsAny(s, ks) == \E j \in 1..Len(ks) : Contains(s, ks[j])

Range(seq) == {seq[i] : i \in 1..Len(seq)}

Min(a, b) == IF a < b THEN a ELSE b

\* first index >= i whose character is not in cls (Len(s)+1 when none)
RECURSIVE RunEnd(_, _, _)
RunEnd(s, i, cls) ==
    IF i > Len(s) \/ Char(s, i) \notin cls THEN i ELSE RunEnd(s, i + 1, cls)

\* maximal runs of characters of cls, left to right
RECURSIVE Runs(_, _, _)
Runs(s, i, cls) ==
    IF i > Len(s) THEN <<>>
    ELSE IF Char(s, i) \in cls
         THEN LET e == RunEnd(s, i, cls)
              IN  <<SubSeq(s, i, e - 1)>> \o Runs(s, e, cls)
         ELSE Runs(s, i + 1, cls)

AllDigits(w) == \A i \in 1..Len(w) : Char(w, i) \in DigitChars

\* re.findall(r'\b\d{lo,hi}\b', s): a match is a whole maximal \w run made
\* of lo..hi digits (inside a longer \w run there is no \b to start or end)
FindDigitRuns(s, lo, hi) ==
    SelectSeq(Runs(s, 1, WordChars),
              LAMBDA w : AllDigits(w) /\ Len(w) >= lo /\ Len(w) <= hi)

AllChars(s) == {Char(s, i) : i \in 1..Len(s)}

\* len(s.split())
WordCount(s) == Len(Runs(s, 1, AllChars(s) \ SpaceChars))

\* length of the scheme prefix of https?:// at i, 0 when there is none
UrlPrefixAt(s, i) ==
    IF i + 6 <= Len(s) /\ SubSeq(s, i, i + 6) = "http://" THEN 7
    ELSE IF i + 7 <= Len(s) /\ SubSeq(s, i, i + 7) = "https://" THEN 8
    ELSE 0

\* re.findall(r'https?://\S+', s)
RECURSIVE FindUrlsFrom(_, _)
FindUrlsFrom(s, i) ==
    IF i > Len(s) THEN <<>>
    ELSE LET p == UrlPrefixAt(s, i)
             e == RunEnd(s, i + p, AllChars(s) \ SpaceChars)
         IN  IF p > 0 /\ e > i + p
             THEN <<SubSeq(s, i, e - 1)>> \o FindUrlsFrom(s, e)
             ELSE FindUrlsFrom(s, i + 1)

FindUrls(s) == FindUrlsFrom(s, 1)

UpiLocalMin == 2

UpiLocalMax == 256

UpiDomainMin == 2

UpiDomainMax == 64

\* end (exclusive) of a match of [a-zA-Z0-9.\-_]{2,256}@[a-zA-Z]{2,64}
\* starting at i, 0 when there is none.  The local class excludes "@", so
\* the local part is the whole run from i up to the "@".
UpiMatchEnd(s, i) ==
    LET j == RunEnd(s, i, UpiLocalChars)
        d == RunEnd(s, j + 1, LetterChars)
    IN  IF /\ j - i >= UpiLocalMin
           /\ j - i <= UpiLocalMax
           /\ j <= Len(s)
           /\ Char(s, j) = "@"
           /\ d - (j + 1) >= UpiDomainMin
        THEN j + 1 + Min(d - (j + 1), UpiDomainMax)
        ELSE 0

\* re.findall(r'[a-zA-Z0-9.\-_]{2,256}@[a-zA-Z]{2,64}', s)
RECURSIVE FindUpisFrom(_, _)
FindUpisFrom(s, i) ==
    IF i > Len(s) THEN <<>>
    ELSE LET e == UpiMatchEnd(s, i)
         IN  IF e > 0
             THEN <<SubSeq(s, i, e - 1)>> \o FindUpisFrom(s, e)
             ELSE FindUpisFrom(s, i + 1)

FindUpis(s) == FindUpisFrom(s, 1)

(***************************************************************************)
(* Inbound messages of the model, as the literal request texts.            *)
(***************************************************************************)
MsgScenario ==
    "Send Rs 500 to scammer@paytm or account 1234567890123456 will be frozen urgently"

MsgAccount == "account"

MsgHello == "hello"

MsgTeam == "Our team from Government will call 9876543210"

Messages == {MsgScenario, MsgAccount, MsgHello, MsgTeam}

\* the inbound messages of the long-engagement runs
LongMessages == {MsgHello, MsgAccount}

\* messages whose only evidence is a payment handle
MsgHandle == "scammer@paytm"

MsgMule == "mule@ybl"

MsgCash == "cash@ybl"

HandleMessages == {MsgHandle, MsgMule, MsgCash}

\* one phone number and one account number in their surface forms
MsgPhoneBare == "call 9876543210"

MsgPhoneCoded == "call +91-9876543210"

MsgPhoneJoined == "call +919876543210"

MsgAccountRun == "account 1234567890123456"

MsgAccountDashed == "account 1234-5678-9012-3456"

PhoneMessages == {MsgPhoneBare, MsgPhoneCoded, MsgPhoneJoined}

FormMessages == PhoneMessages \cup {MsgAccountRun, MsgAccountDashed}

\* a message that classifies as banking and scores an account (0.2) and a
\* number (0.1)
MsgBankCall == "my bank 9876543210"

\* the inbound messages of the runs around the detection threshold
ThresholdMessages == {MsgBankCall, MsgHello, MsgAccount}

\* the fallbacks of EnhancedAgent._get_fallback_response, returned when the
\* LLM call fails or its text is too short
fallbacks ==
    << "I'm not sure I understand. Can you explain that again?",
       "Wait, what exactly do you need me to do?",
       "I'm a bit confused. Could you clarify?",
       "Can you tell me more about this?",
       "I want to help, but I don't fully understand.",
       "What happens if I don't do this?",
       "Is this really urgent?",
       "How do I know this is genuine?" >>

\* a text of the LLM
LlmReply == "Why would my account be frozen?"

\* what generate_response may return: the LLM text, or a fallback
Replies == {LlmReply, fallbacks[2]}

\* an except branch that answers with no text
EmptyReply == ""

\* reply of the handler's except branch
PlaceholderReply == "I'm a bit confused. Could you please clarify?"

SessionIds == {"s1", "s2"}

Senders == {"scammer"}

\* x-api-key header of a request: the configured key, another key, no header
ApiKeys == {"valid", "wrong", "None"}

(***************************************************************************)
(* detect_scam: tables                                                     *)
(***************************************************************************)
\* the keywords dict, in insertion order, weights in tenths
keywords ==
    << [kw |-> "kyc", weight |-> 4], [kw |-> "lottery", weight |-> 5],
       [kw |-> "urgent", weight |-> 3], [kw |-> "block", weight |-> 3],
       [kw |-> "win", weight |-> 4], [kw |-> "otp", weight |-> 5],
       [kw |-> "verify", weight |-> 3], [kw |-> "account", weight |-> 2],
       [kw |-> "suspend", weight |-> 4], [kw |-> "prize", weight |-> 5],
       [kw |-> "congratulations", weight |-> 4], [kw |-> "tax", weight |-> 3],
       [kw |-> "refund", weight |-> 4], [kw |-> "legal", weight |-> 3],
       [kw |-> "court", weight |-> 4] >>

UpiWeight == 3

BankWeight == 2

UrlWeight == 3

PhoneWeight == 1

MaxConfidence == 10

ScamThreshold == 3

UrgencyWords == <<"urgent", "immediately", "now", "today only", "within 24">>

LegalWords == <<"legal action", "arrest", "case", "court", "police">>

AuthorityWords == <<"bank", "official", "department", "government">>

BankNames == <<"sbi", "hdfc", "icici", "axis", "bank of", "reserve bank">>

GovWords == <<"income tax", "gst", "government", "ministry", "customs">>

LotteryWords == <<"lottery", "prize", "winner", "lucky draw">>

org_keywords ==
    <<"team", "senior", "manager", "department", "colleague", "supervisor",
      "head office">>

UpiTypeWords == <<"upi", "paytm", "phonepe", "gpay">>

BankTypeWords == <<"kyc", "account", "bank">>

(***************************************************************************)
(* detect_scam: what one message yields, before it meets the session       *)
(***************************************************************************)
Scan(message) ==
    LET msg_lower == Lower(message)
    IN  [ upis    |-> FindUpis(message),
          banks   |-> FindDigitRuns(message, 9, 18),
          urls    |-> FindUrls(message),
          phones  |-> FindDigitRuns(message, 10, 12),
          kws     |-> SelectSeq(keywords, LAMBDA k : Contains(msg_lower, k.kw)),
          urgency |-> ContainsAny(msg_lower, UrgencyWords),
          legal   |-> ContainsAny(msg_lower, LegalWords),
          authority |-> ContainsAny(msg_lower, AuthorityWords),
          bankName |-> ContainsAny(msg_lower, BankNames),
          gov     |-> ContainsAny(msg_lower, GovWords),
          lottery |-> ContainsAny(msg_lower, LotteryWords),
          orgs    |-> SelectSeq(org_keywords, LAMBDA k : Contains(msg_lower, k)),
          upiType |-> ContainsAny(msg_lower, UpiTypeWords),
          bankType |-> ContainsAny(msg_lower, BankTypeWords),
          words   |-> WordCount(message) ]

VARIABLES
    scan                 \* message -> Scan(message), computed once at start

(***************************************************************************)
(* Session store                                                           *)
(***************************************************************************)
\* the list-valued keys of extractedIntelligence
ListKeys ==
    {"bankAccounts", "upiIds", "phishingLinks", "phoneNumbers",
     "suspiciousKeywords", "tacticPatterns", "organizationalClues",
     "impersonationClaims"}

\* the record get_or_create_session puts into _sessions.  An entry of
\* conversationHistory is [sender, text] (timestamps are left out: nothing
\* reads them).  government_official_key tells whether the key
\* "government_official" is present in extractedIntelligence, callback_sent
\* is session.get("callback_sent", False).
NewSession(session_id) ==
    [ sessionId |-> session_id,
      turnCount |-> 0,
      conversationHistory |-> <<>>,
      extractedIntelligence |->
        [ bankAccounts |-> <<>>,
          upiIds |-> <<>>,
          phishingLinks |-> <<>>,
          phoneNumbers |-> <<>>,
          suspiciousKeywords |-> <<>>,
          tacticPatterns |-> <<>>,
          organizationalClues |-> <<>>,
          impersonationClaims |-> <<>>,
          scamType |-> "unknown",
          sophisticationLevel |-> "unknown",
          government_official_key |-> FALSE ],
      confidence |-> 0,
      callback_sent |-> FALSE ]

\* get_or_create_session that hands out a new record on every call
get_or_create_session_fresh(store, session_id) ==
    [k \in DOMAIN store \cup {session_id} |->
        IF k = session_id THEN NewSession(session_id) ELSE store[k]]

\* get_or_create_session: the store after the call
get_or_create_session(store, session_id) ==
    IF session_id \in DOMAIN store
    THEN store
    ELSE [k \in DOMAIN store \cup {session_id} |->
            IF k = session_id THEN NewSession(session_id) ELSE store[k]]
\* update_session that appends without counting
update_session_uncounted(session, sender, text) ==
    [session EXCEPT
        !.conversationHistory = Append(@, [sender |-> sender, text |-> text])]

\* update_session that counts an entry twice
update_session_twice(session, sender, text) ==
    [session EXCEPT
        !.turnCount = @ + 2,
        !.conversationHistory = Append(@, [sender |-> sender, text |-> text])]

\* update_session that puts the entry in front
update_session_front(session, sender, text) ==
    [session EXCEPT
        !.turnCount = @ + 1,
        !.conversationHistory = <<[sender |-> sender, text |-> text]>> \o @]

update_session(session, sender, text) ==
    [session EXCEPT
        !.turnCount = @ + 1,
        !.conversationHistory = Append(@, [sender |-> sender, text |-> text])]

(***************************************************************************)
(* detect_scam                                                             *)
(***************************************************************************)
\* for x in items: if x not in coll: coll.append(x)
RECURSIVE AppendNew(_, _)
AppendNew(coll, items) ==
    IF items = <<>> THEN coll
    ELSE AppendNew(IF Head(items) \in Range(coll) THEN coll
                   ELSE Append(coll, Head(items)),
                   Tail(items))

\* if cond: if tag not in coll: coll.append(tag)
AddTag(coll, tag, cond) ==
    IF cond /\ tag \notin Range(coll) THEN Append(coll, tag) ELSE coll

\* for keyword in org_keywords:
\*     if keyword in msg_lower and keyword not in clues:
\*         clues.append(f"mentioned_{keyword}")
RECURSIVE AddOrgClues(_, _)
AddOrgClues(clues, matched) ==
    IF matched = <<>> THEN clues
    ELSE AddOrgClues(IF Head(matched) \notin Range(clues)
                     THEN Append(clues, "mentioned_" \o Head(matched))
                     ELSE clues,
                     Tail(matched))

RECURSIVE SumWeights(_)
SumWeights(ks) ==
    IF ks = <<>> THEN 0 ELSE Head(ks).weight + SumWeights(Tail(ks))

KwNames(ks) == [i \in 1..Len(ks) |-> ks[i].kw]
\* ClassifyScamType without the test scamType == "unknown"
ClassifyScamTypeEveryTurn(scamType, sc) ==
    IF sc.upiType THEN [raised |-> FALSE, scamType |-> "UPI_fraud"]
    ELSE IF sc.bankType THEN [raised |-> FALSE, scamType |-> "banking_fraud"]
    ELSE [raised |-> TRUE, scamType |-> scamType]

\* the branch "Classify scam type": [raised, scamType].  The third test
\* reads the name w, which is bound nowhere in its scope: evaluating it
\* raises NameError.
ClassifyScamType(scamType, sc) ==
    IF scamType # "unknown" THEN [raised |-> FALSE, scamType |-> scamType]
    ELSE IF sc.upiType THEN [raised |-> FALSE, scamType |-> "UPI_fraud"]
    ELSE IF sc.bankType THEN [raised |-> FALSE, scamType |-> "banking_fraud"]
    ELSE [raised |-> TRUE, scamType |-> scamType]

\* Clamp that lets the sum through
ClampNone(confidence) == confidence

\* confidence = min(1.0, confidence)
Clamp(confidence) == Min(MaxConfidence, confidence)

\* confidence > 0.3 on the clamped, not yet rounded float sum: a sum of
\* exactly three tenths built from two or more non-zero floats is
\* 0.30000000000000004 and exceeds 0.3; 0.3 alone (or 0.0 + 0.3) does not.
ExceedsThreshold(start, added, terms) ==
    LET c == Clamp(start + added)
    IN  \/ c > ScamThreshold
        \/ /\ c = ScamThreshold
           /\ added > 0
           /\ (start > 0 \/ terms >= 2)
\* StartConfidence that scores every message from zero
StartConfidenceZero(session) == 0

\* confidence = session.get("confidence", 0.0)
StartConfidence(session) == session.confidence

\* detect_scam(session, message).  intel is the session's
\* extractedIntelligence after the call (it is mutated in place, also when
\* the call raises); confidence and scamDetected are the returned values,
\* meaningful when raised is FALSE.
detect_scam(session, message) ==
    LET intel == session.extractedIntelligence
        sc == scan[message]
        upiIds == AppendNew(intel.upiIds, sc.upis)
        bankAccounts == AppendNew(intel.bankAccounts, sc.banks)
        phishingLinks == AppendNew(intel.phishingLinks, sc.urls)
        phoneNumbers == AppendNew(intel.phoneNumbers, sc.phones)
        newUpis == Len(upiIds) - Len(intel.upiIds)
        newBanks == Len(bankAccounts) - Len(intel.bankAccounts)
        newUrls == Len(phishingLinks) - Len(intel.phishingLinks)
        newPhones == Len(phoneNumbers) - Len(intel.phoneNumbers)
        added == UpiWeight * newUpis + BankWeight * newBanks
                   + UrlWeight * newUrls + PhoneWeight * newPhones
                   + SumWeights(sc.kws)
        terms == newUpis + newBanks + newUrls + newPhones + Len(sc.kws)
        tactics == AddTag(AddTag(AddTag(intel.tacticPatterns,
                       "high_urgency_tactics", sc.urgency),
                       "legal_threat_tactics", sc.legal),
                       "authority_impersonation", sc.authority)
        claims1 == AddTag(intel.impersonationClaims, "bank_official", sc.bankName)
        govKey == \/ intel.government_official_key
                  \/ sc.gov /\ "government_official" \notin Range(claims1)
        claims == AddTag(claims1, "lottery_organizer", sc.lottery)
        cls == ClassifyScamType(intel.scamType, sc)
    IN  [ raised |-> cls.raised,
          intel |->
            [intel EXCEPT
                !.upiIds = upiIds,
                !.bankAccounts = bankAccounts,
                !.phishingLinks = phishingLinks,
                !.phoneNumbers = phoneNumbers,
                !.suspiciousKeywords = AppendNew(@, KwNames(sc.kws)),
                !.tacticPatterns = tactics,
                !.impersonationClaims = claims,
                !.government_official_key = govKey,
                !.organizationalClues = AddOrgClues(@, sc.orgs),
                !.scamType = cls.scamType],
          confidence |-> Clamp(StartConfidence(session) + added),
          scamDetected |-> ExceedsThreshold(StartConfidence(session), added, terms) ]

(***************************************************************************)
(* calculate_sophistication                                                *)
(***************************************************************************)
RECURSIVE SumWords(_)
SumWords(texts) ==
    IF texts = <<>> THEN 0 ELSE scan[Head(texts)].words + SumWords(Tail(texts))

SophHigh == 8

SophMedium == 4

\* SophTier whose medium tier starts one point late
SophTierLate(score) ==
    IF score >= SophHigh THEN "high"
    ELSE IF score > SophMedium THEN "medium"
    ELSE "low"

SophTier(score) ==
    IF score >= SophHigh THEN "high"
    ELSE IF score >= SophMedium THEN "medium"
    ELSE "low"

SophScore(session) ==
    LET intel == session.extractedIntelligence
        scammer == SelectSeq(session.conversationHistory,
                             LAMBDA msg : msg.sender = "scammer")
        texts == [i \in 1..Len(scammer) |-> scammer[i].text]
        total == SumWords(texts)
        n == Len(texts)
        \* avg_length > 20, avg_length > 10 with avg_length = total / n
        complexity == IF n = 0 THEN 0
                      ELSE IF total > 20 * n THEN 3
                      ELSE IF total > 10 * n THEN 1
                      ELSE 0
        intel_types ==
            Cardinality({k \in {"bankAccounts", "upiIds", "phishingLinks",
                                "phoneNumbers", "suspiciousKeywords"} :
                            Len(intel[k]) > 0})
    IN  complexity + intel_types
          + (IF Len(intel.organizationalClues) > 0 THEN 2 ELSE 0)
          + (IF Len(intel.tacticPatterns) >= 2 THEN 2 ELSE 0)
          + (IF session.turnCount > 12 THEN 2 ELSE 0)

calculate_sophistication(session) == SophTier(SophScore(session))

(***************************************************************************)
(* PerfectScamDetector: the extraction and classification methods that     *)
(* detect_scam_v2 runs on one message.  The detector keeps no state.       *)
(***************************************************************************)
\* \b at position i of s (between the characters i-1 and i)
Boundary(s, i) ==
    LET before == i > 1 /\ Char(s, i - 1) \in WordChars
        after == i <= Len(s) /\ Char(s, i) \in WordChars
    IN  before # after

\* s has n digits from position i on
DigitsAt(s, i, n) ==
    /\ i + n - 1 <= Len(s)
    /\ \A k \in i..(i + n - 1) : Char(s, k) \in DigitChars

\* s has the text k at position i
TextAt(s, i, k) == i + Len(k) - 1 <= Len(s) /\ SubSeq(s, i, i + Len(k) - 1) = k

NoMatch == [e |-> 0, cap |-> ""]

\* \d{4}X\d{4}X\d{4}X\d{4} at i with each X in seps, between two \b
\* (patterns 2 and 3 of extract_bank_accounts)
GroupedAt(s, i, seps) ==
    IF /\ Boundary(s, i)
       /\ i + 18 <= Len(s)
       /\ \A g \in 0..3 : DigitsAt(s, i + 5 * g, 4)
       /\ \A g \in 1..3 : Char(s, i + 5 * g - 1) \in seps
       /\ Boundary(s, i + 19)
    THEN [e |-> i + 19, cap |-> SubSeq(s, i, i + 18)]
    ELSE NoMatch

\* KEYWORD\s+(\d{16}) at i, for one of the keywords kws (IGNORECASE: low is
\* the lowered text)
AfterWordAt(s, low, i, kws) ==
    IF \E j \in 1..Len(kws) : TextAt(low, i, kws[j])
    THEN LET kw == kws[CHOOSE j \in 1..Len(kws) : TextAt(low, i, kws[j])]
             d == RunEnd(s, i + Len(kw), SpaceChars)
         IN  IF d > i + Len(kw) /\ DigitsAt(s, d, 16)
             THEN [e |-> d + 16, cap |-> SubSeq(s, d, d + 15)]
             ELSE NoMatch
    ELSE NoMatch

\* account\s+(?:number)?[\s:]+(\d{16}) at i (pattern 4)
AccountNumberAt(s, low, i) ==
    IF ~TextAt(low, i, "account") THEN NoMatch
    ELSE LET a == i + 7
             w == RunEnd(s, a, SpaceChars)
             \* with "number": \s+ is the whole blank run before it
             n == RunEnd(s, w + 6, SpaceChars \cup {":"})
             \* without: one blank for \s+, the rest of the run for [\s:]+
             m == RunEnd(s, a, SpaceChars \cup {":"})
         IN  IF w > a /\ TextAt(low, w, "number") /\ n > w + 6
                /\ DigitsAt(s, n, 16)
             THEN [e |-> n + 16, cap |-> SubSeq(s, n, n + 15)]
             ELSE IF w > a /\ m >= a + 2 /\ DigitsAt(s, m, 16)
             THEN [e |-> m + 16, cap |-> SubSeq(s, m, m + 15)]
             ELSE NoMatch

\* confirm\s+(?:your\s+)?account\s+(?:number\s+)?(\d{16}) at i (pattern 6)
ConfirmAccountAt(s, low, i) ==
    IF ~TextAt(low, i, "confirm") THEN NoMatch
    ELSE LET c == RunEnd(s, i + 7, SpaceChars)
             y == IF TextAt(low, c, "your")
                     /\ RunEnd(s, c + 4, SpaceChars) > c + 4
                  THEN RunEnd(s, c + 4, SpaceChars) ELSE c
             a == RunEnd(s, y + 7, SpaceChars)
             n == IF TextAt(low, a, "number")
                     /\ RunEnd(s, a + 6, SpaceChars) > a + 6
                  THEN RunEnd(s, a + 6, SpaceChars) ELSE a
         IN  IF c > i + 7 /\ TextAt(low, y, "account") /\ a > y + 7
                /\ DigitsAt(s, n, 16)
             THEN [e |-> n + 16, cap |-> SubSeq(s, n, n + 15)]
             ELSE NoMatch

\* \+91[seps]?(\d{10}) at i; the capture is the ten digits, whole the text
\* matched (patterns 1 and 2 of extract_phone_numbers, and the group of 4-6)
CodedPhoneAt(s, i, seps) ==
    IF ~TextAt(s, i, "+91") THEN [e |-> 0, cap |-> "", whole |-> ""]
    ELSE LET d == IF i + 3 <= Len(s) /\ Char(s, i + 3) \in seps
                  THEN i + 4 ELSE i + 3
         IN  IF DigitsAt(s, d, 10)
             THEN [e |-> d + 10, cap |-> SubSeq(s, d, d + 9),
                   whole |-> SubSeq(s, i, d + 9)]
             ELSE [e |-> 0, cap |-> "", whole |-> ""]

PhoneSeps == {"-", "."} \cup SpaceChars

\* (?:KEYWORDS)[\s:]+(\+91[-.\s]?\d{10}) at i (patterns 4, 5 and 6)
PhoneAfterWordAt(s, low, i, kws) ==
    IF \E j \in 1..Len(kws) : TextAt(low, i, kws[j])
    THEN LET kw == kws[CHOOSE j \in 1..Len(kws) : TextAt(low, i, kws[j])]
             d == RunEnd(s, i + Len(kw), SpaceChars \cup {":"})
             m == CodedPhoneAt(s, d, PhoneSeps)
         IN  IF d > i + Len(kw) /\ m.e > 0
             THEN [e |-> m.e, cap |-> m.whole]
             ELSE NoMatch
    ELSE NoMatch

\* [a-z0-9.-] under IGNORECASE, as a class of the lowered text
DomainChars == LowerChars \cup DigitChars \cup {".", "-"}

\* the characters after the scheme in pattern 4 of extract_phishing_links
UrlChars ==
    LetterChars \cup DigitChars \cup
    {"-", ".", "_", "~", ":", "/", "?", "#", "[", "]", "@", "!", "$", "&",
     "'", "(", ")", "*", "+", ",", ";", "="}

\* [a-z0-9.-]+\.[a-z]{2,} at d: the position of the dot the greedy match
\* settles on (the rightmost dot of the run with a character before it and
\* two letters after it), 0 when there is none
DomainDot(low, d) ==
    LET e == RunEnd(low, d, DomainChars)
        dots == { k \in (d + 1)..(e - 1) :
                    /\ Char(low, k) = "."
                    /\ RunEnd(low, k + 1, LowerChars) >= k + 3 }
    IN  IF dots = {} THEN 0 ELSE CHOOSE k \in dots : \A j \in dots : j <= k

\* the end of DOMAIN(?:/[^\s]*)? (whole = FALSE) or DOMAIN[^\s]* (whole =
\* TRUE) for a domain starting at d whose dot is at k
DomainEnd(s, low, d, k, whole) ==
    LET l == RunEnd(low, k + 1, LowerChars)
    IN  IF whole \/ (l <= Len(s) /\ Char(s, l) = "/")
        THEN RunEnd(s, l, AllChars(s) \ SpaceChars)
        ELSE l

\* (?:KEYWORDS)[\s:]+(DOMAIN...) at i (patterns 2, 6 and 7); goto tells
\* whether go\s+to is one of the keywords
LinkAfterWordAt(s, low, i, kws, goto, whole) ==
    LET w == RunEnd(s, i + 2, SpaceChars)
        a == IF \E j \in 1..Len(kws) : TextAt(low, i, kws[j])
             THEN i + Len(kws[CHOOSE j \in 1..Len(kws) : TextAt(low, i, kws[j])])
             ELSE IF goto /\ TextAt(low, i, "go") /\ w > i + 2 /\ TextAt(low, w, "to")
             THEN w + 2
             ELSE 0
        d == RunEnd(s, a, SpaceChars \cup {":"})
        k == DomainDot(low, d)
    IN  IF a > 0 /\ d > a /\ k > 0
        THEN [e |-> DomainEnd(s, low, d, k, whole),
              cap |-> SubSeq(s, d, DomainEnd(s, low, d, k, whole) - 1)]
        ELSE NoMatch

\* [a-z0-9]*(?:fake|verify|secure|confirm|check|login)[a-z0-9]*\.[a-z]{2,}
\* (?:/[^\s]*)? at i (pattern 3): a run of letters and digits that holds
\* one of the words, then a dot and two letters
SuspiciousDomainAt(s, low, i) ==
    LET a == RunEnd(low, i, LowerChars \cup DigitChars)
    IN  IF /\ a > i
           /\ ContainsAny(SubSeq(low, i, a - 1),
                          <<"fake", "verify", "secure", "confirm", "check", "login">>)
           /\ a <= Len(s) /\ Char(s, a) = "."
           /\ RunEnd(low, a + 1, LowerChars) >= a + 3
        THEN [e |-> DomainEnd(s, low, i, a, FALSE),
              cap |-> SubSeq(s, i, DomainEnd(s, low, i, a, FALSE) - 1)]
        ELSE NoMatch

\* ([a-z0-9.-]+\.[a-z]{2,}\?[a-zA-Z0-9=&]*) at i (pattern 5)
QueryLinkAt(s, low, i) ==
    LET k == DomainDot(low, i)
        q == RunEnd(low, k + 1, LowerChars)
        e == RunEnd(s, q + 1, LetterChars \cup DigitChars \cup {"=", "&"})
    IN  IF k > 0 /\ q <= Len(s) /\ Char(s, q) = "?"
        THEN [e |-> e, cap |-> SubSeq(s, i, e - 1)]
        ELSE NoMatch

\* http[s]?://[a-zA-Z0-9\-._~:/?#\[\]@!$&'()*+,;=]+ at i (pattern 4)
SchemeLinkAt(s, i) ==
    LET p == UrlPrefixAt(s, i)
        e == RunEnd(s, i + p, UrlChars)
    IN  IF p > 0 /\ e > i + p
        THEN [e |-> e, cap |-> SubSeq(s, i, e - 1)]
        ELSE NoMatch

\* the match of pattern p at position i of s: e is the position after it
\* (0 when there is none), cap what findall returns for it
MatchAt(p, s, low, i) ==
    CASE p = "bank2" -> GroupedAt(s, i, {"-"})
      [] p = "bank3" -> GroupedAt(s, i, SpaceChars)
      [] p = "bank4" -> AccountNumberAt(s, low, i)
      [] p = "bank5" -> AfterWordAt(s, low, i, <<"account">>)
      [] p = "bank6" -> ConfirmAccountAt(s, low, i)
      [] p = "bank7" -> AfterWordAt(s, low, i, <<"for", "account">>)
      [] p = "link2" ->
            LinkAfterWordAt(s, low, i,
                <<"visit", "click", "open", "check", "verify", "confirm">>,
                TRUE, FALSE)
      [] p = "link3" -> SuspiciousDomainAt(s, low, i)
      [] p = "link4" -> SchemeLinkAt(s, i)
      [] p = "link5" -> QueryLinkAt(s, low, i)
      [] p = "link6" ->
            LinkAfterWordAt(s, low, i, <<"here", "now", "link">>, FALSE, TRUE)
      [] p = "link7" ->
            LinkAfterWordAt(s, low, i, <<"send", "email", "go", "visit">>,
                            FALSE, TRUE)
      [] p = "phone1" ->
            LET m == CodedPhoneAt(s, i, PhoneSeps)
            IN  [e |-> m.e, cap |-> "+91-" \o m.cap]
      [] p = "phone2" ->
            LET m == CodedPhoneAt(s, i, {})
            IN  [e |-> m.e, cap |-> "+91-" \o m.cap]
      [] p = "phone4" ->
            PhoneAfterWordAt(s, low, i, <<"direct", "line", "number", "phone">>)
      [] p = "phone5" -> PhoneAfterWordAt(s, low, i, <<"to", "call", "phone">>)
      [] p = "phone6" -> PhoneAfterWordAt(s, low, i, <<"at", "contact", "reach">>)

\* re.findall(p, s): the captures of the matches, found left to right, each
\* search resuming where the previous match ended
RECURSIVE FindAllFrom(_, _, _, _)
FindAllFrom(p, s, low, i) ==
    IF i > Len(s) THEN <<>>
    ELSE LET m == MatchAt(p, s, low, i)
         IN  IF m.e > 0 THEN <<m.cap>> \o FindAllFrom(p, s, low, m.e)
             ELSE FindAllFrom(p, s, low, i + 1)

FindAll(p, s) == FindAllFrom(p, s, Lower(s), 1)

\* list(dict.fromkeys(items))
Dedup(items) == AppendNew(<<>>, items)

RECURSIVE Flatten(_)
Flatten(lists) ==
    IF lists = <<>> THEN <<>> ELSE Head(lists) \o Flatten(Tail(lists))

\* re.sub(r'\D', '', s)
RECURSIVE DigitsFrom(_, _)
DigitsFrom(s, i) ==
    IF i > Len(s) THEN ""
    ELSE (IF Char(s, i) \in DigitChars THEN Char(s, i) ELSE "")
            \o DigitsFrom(s, i + 1)

DigitsOf(s) == DigitsFrom(s, 1)

\* PerfectScamDetector.extract_bank_accounts
extract_bank_accounts(text) ==
    Dedup(Flatten(<< FindDigitRuns(text, 16, 16),
                     FindAll("bank2", text), FindAll("bank3", text),
                     FindAll("bank4", text), FindAll("bank5", text),
                     FindAll("bank6", text), FindAll("bank7", text) >>))

\* PerfectScamDetector.extract_phishing_links
extract_phishing_links(text) ==
    LET links == Flatten(<< FindUrls(text), FindAll("link2", text),
                            FindAll("link3", text), FindAll("link4", text),
                            FindAll("link5", text), FindAll("link6", text),
                            FindAll("link7", text) >>)
    IN  Dedup(SelectSeq(links,
                        LAMBDA link : Contains(link, ".") /\ Len(link) > 5))

\* the normalisation loop of extract_phone_numbers
NormalizePhone(phone) ==
    LET digits == DigitsOf(phone)
    IN  IF Len(digits) = 10 THEN "+91-" \o digits
        ELSE IF Len(digits) = 12 /\ SubSeq(digits, 1, 2) = "91"
             THEN "+91-" \o SubSeq(digits, 3, 12)
        ELSE phone

\* PerfectScamDetector.extract_phone_numbers
extract_phone_numbers(text) ==
    LET phones == Flatten(<< FindAll("phone1", text), FindAll("phone2", text),
                             FindDigitRuns(text, 10, 10),
                             FindAll("phone4", text), FindAll("phone5", text),
                             FindAll("phone6", text) >>)
    IN  Dedup([i \in 1..Len(phones) |-> NormalizePhone(phones[i])])

\* the vocabulary classify_scam_type tests for each type, on the lowered text
TypeWords(scamType) ==
    CASE scamType = "banking_fraud" ->
            <<"account", "sbi", "bank", "otp", "verify account", "block">>
      [] scamType = "upi_fraud" -> <<"upi">>
      [] scamType = "phishing_attack" ->
            <<"click", "http", "link", "verify here", "confirm here">>
      [] scamType = "credential_theft" -> <<"password", "credentials", "username">>
      [] scamType = "investment_scam" -> <<"invest", "return", "profit", "interest">>
      [] scamType = "prize_scam" -> <<"prize", "lottery", "won", "congratulations">>

\* the test classify_scam_type makes for a type, leaving the order aside
TypeMatches(scamType, text) ==
    \/ ContainsAny(Lower(text), TypeWords(scamType))
    \/ scamType = "upi_fraud" /\ Contains(text, "@")

\* PerfectScamDetector.classify_scam_type
classify_scam_type(text) ==
    IF TypeMatches("banking_fraud", text) /\ ~Contains(Lower(text), "upi")
    THEN "banking_fraud"
    ELSE IF TypeMatches("upi_fraud", text) THEN "upi_fraud"
    ELSE IF TypeMatches("phishing_attack", text) THEN "phishing_attack"
    ELSE IF TypeMatches("credential_theft", text) THEN "credential_theft"
    ELSE IF TypeMatches("investment_scam", text) THEN "investment_scam"
    ELSE IF TypeMatches("prize_scam", text) THEN "prize_scam"
    ELSE "banking_fraud"

(***************************************************************************)
(* The callback gate of honeypot_message                                   *)
(***************************************************************************)
HighConfidence == 8

HighConfidenceTurns == 3

ModerateConfidence == 5

ModerateConfidenceTurns == 8

ForcedExitTurns == 15

\* should_callback whose first minimum is one turn lower
should_callback_early(confidence, turnCount) ==
    \/ confidence > HighConfidence /\ turnCount >= HighConfidenceTurns - 1
    \/ confidence > ModerateConfidence /\ turnCount >= ModerateConfidenceTurns
    \/ turnCount >= ForcedExitTurns

should_callback(confidence, turnCount) ==
    \/ confidence > HighConfidence /\ turnCount >= HighConfidenceTurns
    \/ confidence > ModerateConfidence /\ turnCount >= ModerateConfidenceTurns
    \/ turnCount >= ForcedExitTurns

(***************************************************************************)
(* State                                                                   *)
(***************************************************************************)
VARIABLES
    sessions,            \* _sessions: session id -> session record
    enhanced_agent,      \* the global enhanced_agent of main.py
    OPENROUTER_API_KEY,  \* whether the environment has the key
    callbacks,           \* per session, the results of its send_final_callback calls
    inbound,             \* per session, the texts of the requests that passed authentication
    last,                \* what the latest request did
    tasks,               \* the handler coroutines in flight, by request slot
    loop,                \* the coroutine the event loop is running, or "free"
    intelligence         \* a message and what detect_scam_v2 returns for it

vars ==
    <<intelligence, scan, sessions, enhanced_agent, OPENROUTER_API_KEY, callbacks, inbound,
      last, tasks, loop>>

\* bound on the requests of a run of Spec
MaxRequests == 3

\* bound on turnCount in a run of SpecLong
MaxTurnCount == 16

\* request slots of the server
Reqs == {"r1", "r2"}

NoTurn ==
    [ sid |-> "none", text |-> "", status |-> 0, reply |-> "",
      outcome |-> "none", gate |-> FALSE, dispatched |-> FALSE,
      transport |-> "none", before |-> NewSession("none") ]

\* a slot with no request: pc is the position of the coroutine in
\* honeypot_message, d the value detect_scam is working out, the rest the
\* locals of the handler
IdleTask ==
    [ pc |-> "idle", sid |-> "none", text |-> "", before |-> NewSession("none"),
      d |-> [raised |-> FALSE, news |-> <<>>, scamType |-> "unknown",
             government_official_key |-> FALSE, confidence |-> 0],
      reply |-> "", gate |-> FALSE, dispatched |-> FALSE,
      transport |-> "none", callback_success |-> FALSE ]

\* no message given to detect_scam_v2 yet
NoIntelligence ==
    [ message |-> "", extracted |-> FALSE, bankAccounts |-> <<>>,
      phishingLinks |-> <<>>, phoneNumbers |-> <<>>, scamType |-> "" ]

\* the state at start-up, with the scans of the texts the run's requests
\* may carry
InitOn(texts) ==
    /\ scan = [m \in texts |-> Scan(m)]
    /\ sessions = <<>>
    /\ enhanced_agent = "None"
    /\ OPENROUTER_API_KEY \in BOOLEAN
    /\ callbacks = [sid \in SessionIds |-> <<>>]
    /\ inbound = [sid \in SessionIds |-> <<>>]
    /\ last = NoTurn
    /\ tasks = [r \in Reqs |-> IdleTask]
    /\ loop = "free"
    /\ intelligence = NoIntelligence

Init == InitOn(Messages)

(***************************************************************************)
(* honeypot_message                                                        *)
(***************************************************************************)
\* what client.post of send_final_callback may do: answer with a status
\* code, or raise
Transports == {"200", "500", "ConnectError"}

\* send_final_callback that takes only a 200 answer for a delivery
send_final_callback_checked(transport) == transport = "200"

\* send_final_callback: True once client.post has returned a response,
\* False when the call raised
send_final_callback(transport) == transport # "ConnectError"

\* AuthFails that lets every key through
AuthFailsNever(x_api_key) == FALSE

\* STEP 1: raise HTTPException(401) when a key is given and is not API_KEY
AuthFails(x_api_key) == x_api_key # "valid" /\ x_api_key # "None"

\* Received over a store whose sessions share one record's lists and counters
ReceivedShared(store, session_id, sender, text) ==
    LET store1 == get_or_create_session(store, session_id)
    IN  [k \in DOMAIN store1 |-> update_session(store1[k], sender, text)]

\* STEP 2 and STEP 3 up to the call of detect_scam
Received(store, session_id, sender, text) ==
    LET store1 == get_or_create_session(store, session_id)
    IN  [store1 EXCEPT ![session_id] = update_session(@, sender, text)]

\* Merged that drops what detect_scam collected
MergedNowhere(session, d) == session

\* the session once detect_scam has run on it (raised or not)
Merged(session, d) == [session EXCEPT !.extractedIntelligence = d.intel]

\* session["confidence"] = ...; sophisticationLevel = calculate_sophistication
Scored(session, confidence) ==
    LET s == [session EXCEPT !.confidence = confidence]
    IN  [s EXCEPT !.extractedIntelligence.sophisticationLevel =
                      calculate_sophistication(s)]

\* get_enhanced_agent raises ValueError when the agent is yet to be built
\* and the key is missing
AgentRaises == enhanced_agent = "None" /\ ~OPENROUTER_API_KEY
\* Dispatches without the test of callback_sent
DispatchesUnguarded(session, confidence) ==
    should_callback(confidence, session.turnCount)

\* STEP 6: whether send_final_callback is called
Dispatches(session, confidence) ==
    should_callback(confidence, session.turnCount) /\ ~session.callback_sent
\* AfterCallback that marks the session whatever the transport did
AfterCallbackAlways(session, callback_success) ==
    [session EXCEPT !.callback_sent = TRUE]

\* AfterCallback that forgets the score when the transport fails
AfterCallbackForgets(session, callback_success) ==
    IF callback_success THEN [session EXCEPT !.callback_sent = TRUE]
    ELSE [session EXCEPT !.confidence = 0]

\* if callback_success: session["callback_sent"] = True
AfterCallback(session, callback_success) ==
    IF callback_success THEN [session EXCEPT !.callback_sent = TRUE] ELSE session

\* the session before a request (a fresh one when the request creates it)
Before(session_id) ==
    IF session_id \in DOMAIN sessions THEN sessions[session_id]
    ELSE NewSession(session_id)

\* replies: the texts generate_response may return on this request
honeypot_message(session_id, x_api_key, sender, text, replies) ==
    IF AuthFails(x_api_key)
    THEN /\ last' = [NoTurn EXCEPT !.sid = session_id, !.text = text,
                        !.status = 401, !.outcome = "rejected",
                        !.before = Before(session_id)]
         /\ UNCHANGED <<intelligence, scan, sessions, enhanced_agent, OPENROUTER_API_KEY,
                        callbacks, inbound, tasks, loop>>
    ELSE
    LET store1 == Received(sessions, session_id, sender, text)
        d == detect_scam(store1[session_id], text)
        turn == [NoTurn EXCEPT !.sid = session_id, !.text = text,
                    !.status = 200, !.reply = PlaceholderReply,
                    !.before = Before(session_id)]
    IN  /\ inbound' = [inbound EXCEPT ![session_id] = Append(@, text)]
        /\ UNCHANGED <<intelligence, scan, OPENROUTER_API_KEY, tasks, loop>>
        /\ IF d.raised
           THEN \* detect_scam raised: the except branch answers
                /\ sessions' = [store1 EXCEPT ![session_id] = Merged(@, d)]
                /\ last' = [turn EXCEPT !.outcome = "detect_raised"]
                /\ UNCHANGED <<enhanced_agent, callbacks>>
           ELSE IF AgentRaises
           THEN \* get_enhanced_agent raised: the except branch answers
                /\ sessions' = [store1 EXCEPT ![session_id] =
                                  Scored(Merged(@, d), d.confidence)]
                /\ last' = [turn EXCEPT !.outcome = "agent_raised"]
                /\ UNCHANGED <<enhanced_agent, callbacks>>
           ELSE \E reply \in replies :
                LET s == update_session(
                             Scored(Merged(store1[session_id], d), d.confidence),
                             "user", reply)
                    gate == should_callback(d.confidence, s.turnCount)
                IN  /\ enhanced_agent' = "EnhancedAgent"
                    /\ IF Dispatches(s, d.confidence)
                       THEN \E transport \in Transports :
                            LET callback_success == send_final_callback(transport)
                            IN
                            /\ sessions' = [store1 EXCEPT ![session_id] =
                                              AfterCallback(s, callback_success)]
                            /\ callbacks' = [callbacks EXCEPT ![session_id] =
                                              Append(@, callback_success)]
                            /\ last' = [turn EXCEPT !.outcome = "completed",
                                          !.reply = reply, !.gate = gate,
                                          !.dispatched = TRUE,
                                          !.transport = transport]
                       ELSE /\ sessions' = [store1 EXCEPT ![session_id] = s]
                            /\ last' = [turn EXCEPT !.outcome = "completed",
                                          !.reply = reply, !.gate = gate]
                            /\ UNCHANGED callbacks

(***************************************************************************)
(* The route POST /honeypot/message: the framework builds the parameter     *)
(* "request: RequestPayload" from the JSON body before it calls the         *)
(* handler, and answers 422 itself when the body does not validate.         *)
(***************************************************************************)
\* a JSON body with every required field
FullBody(session_id, sender, text) ==
    [ sessionId |-> session_id,
      message |-> [sender |-> sender, text |-> text] ]

\* the body without one of its keys
Without(body, key) ==
    IF key \in {"sessionId", "message"}
    THEN [k \in DOMAIN body \ {key} |-> body[k]]
    ELSE [body EXCEPT !.message = [k \in DOMAIN @ \ {key} |-> @[k]]]

\* the keys a body of the model may lack
BodyKeys == {"sessionId", "text"}

\* the bodies of the model: complete ones, and ones that lack one key
Bodies ==
    {FullBody(session_id, sender, text) :
        session_id \in SessionIds, sender \in Senders, text \in Messages}
      \cup {Without(FullBody(session_id, "scammer", MsgHello), key) :
                session_id \in SessionIds, key \in BodyKeys}

HasSessionId(body) == "sessionId" \in DOMAIN body

HasMessage(body) ==
    /\ "message" \in DOMAIN body
    /\ {"sender", "text"} \subseteq DOMAIN body.message
\* RequestPayload whose fields all have defaults
RequestPayloadDefaults(body) ==
    [ ok |-> TRUE,
      sessionId |-> IF HasSessionId(body) THEN body.sessionId ELSE "s1",
      sender |-> "scammer",
      text |-> IF HasMessage(body) THEN body.message.text ELSE MsgHello ]

\* RequestPayload, MessageContent: sessionId, message, message.sender and
\* message.text are required; ok tells whether the body validates
RequestPayload(body) ==
    LET ok == HasSessionId(body) /\ HasMessage(body)
    IN  [ ok |-> ok,
          sessionId |-> IF HasSessionId(body) THEN body.sessionId ELSE "none",
          sender |-> IF ok THEN body.message.sender ELSE "",
          text |-> IF ok THEN body.message.text ELSE "" ]

post_honeypot_message(body, x_api_key, replies) ==
    LET request == RequestPayload(body) IN
    IF ~request.ok
    THEN /\ last' = [NoTurn EXCEPT !.sid = request.sessionId,
                        !.status = 422, !.outcome = "invalid"]
         /\ UNCHANGED <<intelligence, scan, sessions, enhanced_agent, OPENROUTER_API_KEY,
                        callbacks, inbound, tasks, loop>>
    ELSE honeypot_message(request.sessionId, x_api_key, request.sender,
                          request.text, replies)

RECURSIVE SumLen(_, _)
SumLen(f, S) ==
    IF S = {} THEN 0
    ELSE LET x == CHOOSE y \in S : TRUE IN Len(f[x]) + SumLen(f, S \ {x})

Requests == SumLen(inbound, SessionIds)

Next ==
    \E session_id \in SessionIds, x_api_key \in ApiKeys,
       sender \in Senders, text \in Messages :
        /\ Requests < MaxRequests
        /\ honeypot_message(session_id, x_api_key, sender, text, Replies)

Spec == Init /\ [][Next]_vars

\* long engagements: one session, turnCount up to MaxTurnCount
LongSession == "s1"

LongReplies == {fallbacks[7]}

InitLong == Init /\ OPENROUTER_API_KEY

NextLong ==
    \E text \in LongMessages :
        /\ Before(LongSession).turnCount < MaxTurnCount
        /\ honeypot_message(LongSession, "valid", "scammer", text, LongReplies)

SpecLong == InitLong /\ [][NextLong]_vars

\* requests as they reach the route, well-formed or not
MaxRouteRequests == 2

NextRoute ==
    \E body \in Bodies, x_api_key \in ApiKeys :
        /\ Requests < MaxRouteRequests
        /\ post_honeypot_message(body, x_api_key, Replies)

SpecRoute == Init /\ [][NextRoute]_vars

\* one session fed the surface forms of one phone number and one account
MaxFormRequests == 3

NextForms ==
    \E text \in FormMessages :
        /\ Len(inbound[LongSession]) < MaxFormRequests
        /\ honeypot_message(LongSession, "valid", "scammer", text, Replies)

InitForms == InitOn(FormMessages)

SpecForms == InitForms /\ [][NextForms]_vars

\* one session fed messages whose scores meet the detection threshold
MaxThresholdRequests == 3

NextThreshold ==
    \E text \in ThresholdMessages :
        /\ Len(inbound[LongSession]) < MaxThresholdRequests
        /\ honeypot_message(LongSession, "valid", "scammer", text, Replies)

InitThreshold == InitOn(ThresholdMessages)

SpecThreshold == InitThreshold /\ [][NextThreshold]_vars

\* engagements on payment handles alone: one session, a few requests
MaxHandleRequests == 4

NextHandles ==
    \E text \in HandleMessages :
        /\ Len(inbound[LongSession]) < MaxHandleRequests
        /\ honeypot_message(LongSession, "valid", "scammer", text, Replies)

InitHandles == InitOn(HandleMessages)

SpecHandles == InitHandles /\ [][NextHandles]_vars

(***************************************************************************)
(* detect_scam_v2 on its own: the detector is a pure function of the       *)
(* message, so the start state draws the message and the one action        *)
(* applies the detector to it.                                             *)
(***************************************************************************)
\* what the messages given to the detector are made of
DetectorFragments ==
    { "hello", "pay x@ybl", "upi", "account", "otp", "password",
      "http://x.co", "lottery", "invest",
      "9876543210", "+91-9876543210", "+919876543210",
      "1234567890123456", "1234-5678-9012-3456",
      "visit fake-bank.com", "go to secure-login.in/kyc" }

\* bound on the fragments of a message given to the detector
MaxFragments == 2

\* " ".join(fragments)
RECURSIVE Join(_)
Join(fragments) ==
    IF Len(fragments) = 1 THEN fragments[1]
    ELSE fragments[1] \o " " \o Join(Tail(fragments))

DetectorTexts ==
    { Join(fs) : fs \in UNION { [1..n -> DetectorFragments] : n \in 1..MaxFragments } }

\* perfect_detector.detect_and_extract(message, 1), the fields studied here
detect_scam_v2 ==
    /\ ~intelligence.extracted
    /\ intelligence' =
          [ message |-> intelligence.message, extracted |-> TRUE,
            bankAccounts |-> extract_bank_accounts(intelligence.message),
            phishingLinks |-> extract_phishing_links(intelligence.message),
            phoneNumbers |-> extract_phone_numbers(intelligence.message),
            scamType |-> classify_scam_type(intelligence.message) ]
    /\ UNCHANGED <<scan, sessions, enhanced_agent, OPENROUTER_API_KEY,
                   callbacks, inbound, last, tasks, loop>>

InitDetector ==
    /\ scan = <<>>
    /\ sessions = <<>>
    /\ enhanced_agent = "None"
    /\ OPENROUTER_API_KEY = FALSE
    /\ callbacks = [sid \in SessionIds |-> <<>>]
    /\ inbound = [sid \in SessionIds |-> <<>>]
    /\ last = NoTurn
    /\ tasks = [r \in Reqs |-> IdleTask]
    /\ loop = "free"
    /\ \E message \in DetectorTexts :
          intelligence = [NoIntelligence EXCEPT !.message = message]

NextDetector == detect_scam_v2

SpecDetector == InitDetector /\ [][NextDetector]_vars

(***************************************************************************)
(* The handler as a coroutine on the server's event loop.  honeypot_message *)
(* is an "async def" whose body holds no await: once the loop runs it, it  *)
(* runs to its return.  Its steps are taken one at a time here, with        *)
(* detect_scam split into its membership tests and its appends, and STEP 6  *)
(* into the test of callback_sent, the call and the assignment.             *)
(***************************************************************************)
\* bound on the requests of a run of SpecConc
MaxConcRequests == 2

ConcMessages == {MsgScenario, MsgAccount, MsgHello}

\* Suspends of a handler that gives up control between any two steps
SuspendsAnywhere(pcv) == TRUE

\* whether the coroutine hands the loop back on reaching position pcv
\* (an await): the handler has none
Suspends(pcv) == FALSE

InFlight == Cardinality({r \in Reqs : tasks[r].pc # "idle"})

\* the server accepts a request and creates its handler coroutine
Arrive(r, session_id, text) ==
    /\ tasks[r].pc = "idle"
    /\ Requests + InFlight < MaxConcRequests
    /\ tasks' = [tasks EXCEPT ![r] =
                    [IdleTask EXCEPT !.pc = "ready", !.sid = session_id,
                                     !.text = text]]
    /\ UNCHANGED <<intelligence, scan, sessions, enhanced_agent, OPENROUTER_API_KEY,
                   callbacks, inbound, last, loop>>

\* the event loop picks a coroutine that can run
Schedule(r) ==
    /\ loop = "free"
    /\ tasks[r].pc # "idle"
    /\ loop' = r
    /\ UNCHANGED <<intelligence, scan, sessions, enhanced_agent, OPENROUTER_API_KEY,
                   callbacks, inbound, last, tasks>>

\* the coroutine of slot r moves on to the task record t
Advance(r, t) ==
    /\ tasks' = [tasks EXCEPT ![r] = t]
    /\ loop' = IF Suspends(t.pc) THEN "free" ELSE loop

\* STEP 1 (the configured key) and STEP 2
RunSession(r) ==
    LET t == tasks[r] IN
    /\ loop = r /\ t.pc = "ready"
    /\ sessions' = Received(sessions, t.sid, "scammer", t.text)
    /\ inbound' = [inbound EXCEPT ![t.sid] = Append(@, t.text)]
    /\ Advance(r, [t EXCEPT !.pc = "detect", !.before = Before(t.sid)])
    /\ UNCHANGED <<intelligence, scan, enhanced_agent, OPENROUTER_API_KEY, callbacks, last>>

\* detect_scam, the tests: what it finds new against the session as it is
RunDetect(r) ==
    LET t == tasks[r]
        session == sessions[t.sid]
        d == detect_scam(session, t.text)
        news == [k \in ListKeys |->
                    SubSeq(d.intel[k],
                           Len(session.extractedIntelligence[k]) + 1,
                           Len(d.intel[k]))]
    IN
    /\ loop = r /\ t.pc = "detect"
    /\ Advance(r, [t EXCEPT !.pc = "merge",
                     !.d = [raised |-> d.raised, news |-> news,
                            scamType |-> d.intel.scamType,
                            government_official_key |->
                                d.intel.government_official_key,
                            confidence |-> d.confidence]])
    /\ UNCHANGED <<intelligence, scan, sessions, enhanced_agent, OPENROUTER_API_KEY,
                   callbacks, inbound, last>>

\* detect_scam, the appends and assignments, then its return or its raise
RunMerge(r) ==
    LET t == tasks[r]
        intel == sessions[t.sid].extractedIntelligence
        merged == [k \in DOMAIN intel |->
                      IF k \in ListKeys THEN intel[k] \o t.d.news[k]
                      ELSE IF k = "scamType"
                           THEN (IF t.d.scamType # "unknown" THEN t.d.scamType
                                 ELSE intel[k])
                      ELSE IF k = "government_official_key"
                           THEN intel[k] \/ t.d.government_official_key
                      ELSE intel[k]]
    IN
    /\ loop = r /\ t.pc = "merge"
    /\ sessions' = [sessions EXCEPT ![t.sid].extractedIntelligence = merged]
    /\ Advance(r, [t EXCEPT !.pc = IF t.d.raised THEN "except" ELSE "score"])
    /\ UNCHANGED <<intelligence, scan, enhanced_agent, OPENROUTER_API_KEY, callbacks,
                   inbound, last>>

\* lines 137-147, then get_enhanced_agent
RunScore(r) ==
    LET t == tasks[r] IN
    /\ loop = r /\ t.pc = "score"
    /\ sessions' = [sessions EXCEPT ![t.sid] = Scored(@, t.d.confidence)]
    /\ Advance(r, [t EXCEPT !.pc = IF AgentRaises THEN "except" ELSE "reply"])
    /\ UNCHANGED <<intelligence, scan, enhanced_agent, OPENROUTER_API_KEY, callbacks,
                   inbound, last>>

\* STEP 4 and STEP 5
RunReply(r) ==
    LET t == tasks[r] IN
    /\ loop = r /\ t.pc = "reply"
    /\ \E reply \in LongReplies :
          /\ sessions' = [sessions EXCEPT ![t.sid] =
                            update_session(@, "user", reply)]
          /\ Advance(r, [t EXCEPT !.pc = "gate", !.reply = reply])
    /\ enhanced_agent' = "EnhancedAgent"
    /\ UNCHANGED <<intelligence, scan, OPENROUTER_API_KEY, callbacks, inbound, last>>

\* STEP 6, the tests
RunGate(r) ==
    LET t == tasks[r]
        session == sessions[t.sid]
        send == Dispatches(session, t.d.confidence)
    IN
    /\ loop = r /\ t.pc = "gate"
    /\ Advance(r, [t EXCEPT
                     !.pc = IF send THEN "send" ELSE "return",
                     !.gate = should_callback(t.d.confidence, session.turnCount),
                     !.dispatched = send])
    /\ UNCHANGED <<intelligence, scan, sessions, enhanced_agent, OPENROUTER_API_KEY,
                   callbacks, inbound, last>>

\* STEP 6, send_final_callback
RunSend(r) ==
    LET t == tasks[r] IN
    /\ loop = r /\ t.pc = "send"
    /\ \E transport \in Transports :
          LET callback_success == send_final_callback(transport)
          IN
          /\ callbacks' = [callbacks EXCEPT ![t.sid] = Append(@, callback_success)]
          /\ Advance(r, [t EXCEPT !.pc = "mark",
                                  !.transport = transport,
                                  !.callback_success = callback_success])
    /\ UNCHANGED <<intelligence, scan, sessions, enhanced_agent, OPENROUTER_API_KEY,
                   inbound, last>>

\* STEP 6, the assignment of callback_sent
RunMark(r) ==
    LET t == tasks[r] IN
    /\ loop = r /\ t.pc = "mark"
    /\ sessions' = [sessions EXCEPT ![t.sid] =
                      AfterCallback(@, t.callback_success)]
    /\ Advance(r, [t EXCEPT !.pc = "return"])
    /\ UNCHANGED <<intelligence, scan, enhanced_agent, OPENROUTER_API_KEY, callbacks,
                   inbound, last>>

\* STEP 8, or the except branch: the response leaves and the coroutine ends
Return(r) ==
    LET t == tasks[r] IN
    /\ loop = r /\ t.pc \in {"return", "except"}
    /\ last' = [ sid |-> t.sid, text |-> t.text, status |-> 200,
                 reply |-> IF t.pc = "return" THEN t.reply ELSE PlaceholderReply,
                 outcome |-> IF t.pc = "return" THEN "completed"
                             ELSE IF t.d.raised THEN "detect_raised"
                             ELSE "agent_raised",
                 gate |-> t.gate, dispatched |-> t.dispatched,
                 transport |-> t.transport, before |-> t.before ]
    /\ tasks' = [tasks EXCEPT ![r] = IdleTask]
    /\ loop' = "free"
    /\ UNCHANGED <<intelligence, scan, sessions, enhanced_agent, OPENROUTER_API_KEY,
                   callbacks, inbound>>

NextConc ==
    \E r \in Reqs :
        \/ \E session_id \in SessionIds, text \in ConcMessages :
              Arrive(r, session_id, text)
        \/ Schedule(r)
        \/ RunSession(r)
        \/ RunDetect(r)
        \/ RunMerge(r)
        \/ RunScore(r)
        \/ RunReply(r)
        \/ RunGate(r)
        \/ RunSend(r)
        \/ RunMark(r)
        \/ Return(r)

SpecConc == Init /\ [][NextConc]_vars

TypeOK ==
    /\ DOMAIN sessions \subseteq SessionIds
    /\ enhanced_agent \in {"None", "EnhancedAgent"}
    /\ \A sid \in DOMAIN sessions :
        /\ sessions[sid].sessionId = sid
        /\ sessions[sid].turnCount \in Nat
        /\ sessions[sid].confidence \in 0..MaxConfidence
        /\ sessions[sid].callback_sent \in BOOLEAN

(***************************************************************************)
(* Properties                                                              *)
(***************************************************************************)
\* the latest request was processed as a turn (it passed authentication)
LastWasTurn == last.outcome \in {"detect_raised", "agent_raised", "completed"}

\* the session of the latest turn, as the turn left it
LastSession == sessions[last.sid]

\* the result of the latest send_final_callback call of a session
LastCallback(sid) == callbacks[sid][Len(callbacks[sid])]

Successes(sid) == Len(SelectSeq(callbacks[sid], LAMBDA ok : ok))

\* the latest turn fed its session the text of the session's previous turn
LastWasRepeat ==
    /\ LastWasTurn
    /\ Len(inbound[last.sid]) >= 2
    /\ inbound[last.sid][Len(inbound[last.sid]) - 1] = last.text

C3_MonotonicConfidence ==
    [][\A sid \in DOMAIN sessions :
          sessions'[sid].confidence >= sessions[sid].confidence]_vars

\* a turn that raised an already positive confidence, after a turn of the
\* same session whose detect_scam had raised
C3_Witness ==
    /\ last.outcome = "completed"
    /\ last.before.confidence > 0
    /\ LastSession.confidence > last.before.confidence
    /\ LastSession.confidence < MaxConfidence

\* C4 (as stated): feeding a session the same message twice leaves every
\* collection with the size it had after the first feed.
C4_IdempotentDedup ==
    LastWasRepeat =>
        \A k \in ListKeys :
            Len(LastSession.extractedIntelligence[k])
              = Len(last.before.extractedIntelligence[k])

\* C5 (as stated): a turn that repeats the previous message of its session
\* increases turnCount and leaves confidence as it was.
C5_RepeatKeepsConfidence ==
    LastWasRepeat =>
        /\ LastSession.turnCount > last.before.turnCount
        /\ LastSession.confidence = last.before.confidence

\* C6 (as stated): after k inbound messages processed for a session its
\* turnCount is k.
C6_TurnCountIsInbound ==
    \A sid \in DOMAIN sessions :
        sessions[sid].turnCount = Len(inbound[sid])

\* C6 (amended): turnCount is incremented once for each message appended to
\* the history: a turn adds 1 for the inbound message and 1 more when it
\* gets as far as appending the reply, so after k inbound messages
\* turnCount lies between k and 2k.
C6_TurnCountPerMessage ==
    /\ \A sid \in DOMAIN sessions :
          /\ sessions[sid].turnCount >= Len(inbound[sid])
          /\ sessions[sid].turnCount <= 2 * Len(inbound[sid])
    /\ LastWasTurn =>
          LastSession.turnCount
            = last.before.turnCount
                + (IF last.outcome = "completed" THEN 2 ELSE 1)

\* a session with one turn that stopped before the reply and one that
\* completed
C6_Witness ==
    \E sid \in DOMAIN sessions :
        /\ Len(inbound[sid]) = 2
        /\ sessions[sid].turnCount = 3
        /\ last.sid = sid /\ last.outcome = "completed"

\* C7: once scamType is other than "unknown" no step changes it.
C7_StickyScamType ==
    [][\A sid \in DOMAIN sessions :
          sessions[sid].extractedIntelligence.scamType # "unknown"
            => sessions'[sid].extractedIntelligence.scamType
                 = sessions[sid].extractedIntelligence.scamType]_vars

\* a session classified banking_fraud that then completed a turn on a
\* message with payment-handle vocabulary
C7_Witness ==
    /\ last.outcome = "completed"
    /\ last.before.extractedIntelligence.scamType = "banking_fraud"
    /\ scan[last.text].upiType
    /\ LastSession.extractedIntelligence.scamType = "banking_fraud"

\* C8 (as stated): on every turn that leaves aggregation with the session
\* PENDING, a report is dispatched iff the gate condition holds of the
\* session's confidence and turnCount.
C8_DispatchIffGate ==
    (LastWasTurn /\ ~last.before.callback_sent) =>
        (last.dispatched
           <=> should_callback(LastSession.confidence, LastSession.turnCount))

\* C9 (as stated): by the turn on which turnCount reaches 15 a report has
\* been dispatched for the session.
C9_ForcedExit ==
    \A sid \in DOMAIN sessions :
        sessions[sid].turnCount >= ForcedExitTurns => Len(callbacks[sid]) >= 1

\* the coroutine of slot r is between the session lookup and the return
InsideTurn(r) == tasks[r].pc \notin {"idle", "ready"}

NoDuplicates(seq) == Cardinality(Range(seq)) = Len(seq)

\* C10: two requests for one session are never both inside the
\* read-merge-write sequence of a turn; no item is appended twice to the
\* weighted collections and no session gets two reports delivered.
C10_TurnsDoNotInterleave ==
    /\ \A r1, r2 \in Reqs :
          (r1 # r2 /\ InsideTurn(r1) /\ InsideTurn(r2))
            => tasks[r1].sid # tasks[r2].sid
    /\ \A sid \in DOMAIN sessions :
          /\ \A k \in {"upiIds", "bankAccounts", "phishingLinks", "phoneNumbers"} :
                NoDuplicates(sessions[sid].extractedIntelligence[k])
          /\ Successes(sid) <= 1

\* two requests for one session in flight at once, carrying the same
\* payment handle: one is past detect_scam's tests, the other waits
C10_Witness ==
    \E r1, r2 \in Reqs :
        /\ r1 # r2
        /\ tasks[r1].sid = tasks[r2].sid
        /\ tasks[r1].text = tasks[r2].text
        /\ tasks[r1].pc = "merge"
        /\ Len(tasks[r1].d.news["upiIds"]) > 0
        /\ tasks[r2].pc = "ready"

\* C11 (as stated): detect_scam never raises, whatever the message text and
\* the session's scamType; a category with no match contributes nothing.
C11_DetectNeverRaises ==
    LastWasTurn =>
        /\ last.outcome # "detect_raised"
        /\ ~detect_scam(update_session(last.before, "scammer", last.text),
                        last.text).raised

\* the latest turn's reply generation failed: get_enhanced_agent raised, or
\* generate_response fell back
ReplyFailed ==
    \/ last.outcome = "agent_raised"
    \/ last.outcome = "completed" /\ last.reply \in Range(fallbacks)

\* the latest turn dispatched the report and the transport failed
DispatchFailed == last.dispatched /\ ~LastCallback(last.sid)

\* the session holds what detect_scam merged and computed on the latest turn
LastTurnKept ==
    LET d == detect_scam(update_session(last.before, "scammer", last.text),
                         last.text)
    IN  /\ \A k \in ListKeys \cup {"scamType"} :
              LastSession.extractedIntelligence[k] = d.intel[k]
        /\ LastSession.confidence = d.confidence

\* C12 (as stated): when reply generation or report dispatch fails, the turn
\* completes, the caller receives a placeholder reply, and the session keeps
\* the items merged and the confidence computed on that turn.
C12_PlaceholderOnFailure ==
    (ReplyFailed \/ DispatchFailed) =>
        /\ last.status = 200
        /\ last.reply \in {PlaceholderReply} \cup Range(fallbacks)
        /\ LastTurnKept

\* C12 (amended): when reply generation fails the caller receives a
\* placeholder (the handler's, or a fallback of the generator); when only the
\* dispatch fails the caller receives the generated reply, the one appended
\* to the history; in both cases the response is a success and the session
\* keeps the items merged and the confidence computed on that turn.
C12_TurnSurvivesFailure ==
    /\ ReplyFailed =>
          /\ last.status = 200
          /\ last.reply \in (IF last.outcome = "agent_raised"
                             THEN {PlaceholderReply} ELSE Range(fallbacks))
          /\ LastTurnKept
    /\ DispatchFailed =>
          /\ last.status = 200
          /\ last.outcome = "completed"
          /\ LastSession.conversationHistory[LastSession.turnCount]
               = [sender |-> "user", text |-> last.reply]
          /\ LastTurnKept

\* a turn that merged a new item, answered with the LLM's text and failed to
\* deliver the report
C12_Witness ==
    /\ DispatchFailed
    /\ last.reply = LlmReply
    /\ Len(LastSession.extractedIntelligence.phoneNumbers)
         > Len(last.before.extractedIntelligence.phoneNumbers)
    /\ LastSession.confidence > 0

\* C13: the confidence of every session lies in [0.0, 1.0]; a session
\* starts at 0.0 and each update is clamped to at most 1.0.
C13_ConfidenceInUnitInterval ==
    /\ \A sid \in DOMAIN sessions :
          /\ sessions[sid].confidence >= 0
          /\ sessions[sid].confidence <= MaxConfidence
    /\ (LastWasTurn /\ Len(inbound[last.sid]) = 1) => last.before.confidence = 0

\* a completed turn whose weights, added to the stored confidence, pass 1.0:
\* the session is left at exactly 1.0
C13_Witness ==
    /\ last.outcome = "completed"
    /\ last.before.confidence + SumWeights(scan[last.text].kws) > MaxConfidence
    /\ LastSession.confidence = MaxConfidence

IsPrefix(a, b) == Len(a) <= Len(b) /\ SubSeq(b, 1, Len(a)) = a

\* C14 (as stated): no string collection of a session holds a value twice,
\* and values stay in the order of their first occurrence (a turn only
\* appends to what the collection held).
C14_SetLikeCollections ==
    /\ \A sid \in DOMAIN sessions : \A k \in ListKeys :
          NoDuplicates(sessions[sid].extractedIntelligence[k])
    /\ LastWasTurn =>
          \A k \in ListKeys :
              IsPrefix(last.before.extractedIntelligence[k],
                       LastSession.extractedIntelligence[k])

\* how many handles of the latest message the session did not hold before
NewHandles ==
    Cardinality(Range(scan[last.text].upis)
                  \ Range(last.before.extractedIntelligence.upiIds))

\* C15 (as stated): a turn whose only evidence is a payment handle the
\* session already holds leaves confidence as it was, and a turn that brings
\* a second, distinct handle raises confidence by the per-handle weight, up
\* to the clamp.
C15_HandleWeights ==
    (LastWasTurn /\ last.text \in HandleMessages) =>
        /\ NewHandles = 0 =>
              LastSession.confidence = last.before.confidence
        /\ (NewHandles > 0
              /\ Len(last.before.extractedIntelligence.upiIds) >= 1) =>
              LastSession.confidence
                = Min(MaxConfidence,
                      last.before.confidence + UpiWeight * NewHandles)

\* C16: once a session is REPORTED no later turn calls send_final_callback
\* for it, whatever its confidence and turnCount (the delivered call stays
\* the last one), and the evidence of later turns is still merged.
C16_ReportedIsTerminal ==
    /\ \A sid \in DOMAIN sessions :
          sessions[sid].callback_sent =>
              /\ Len(callbacks[sid]) >= 1
              /\ LastCallback(sid)
              /\ Successes(sid) = 1
    /\ (LastWasTurn /\ last.before.callback_sent) =>
          /\ ~last.dispatched
          /\ LastSession.callback_sent
          /\ LastTurnKept

\* a turn on a REPORTED session with the gate condition true, which merged a
\* new phone number and raised turnCount
C16_Witness ==
    /\ last.outcome = "completed"
    /\ last.before.callback_sent
    /\ last.gate
    /\ should_callback(LastSession.confidence, LastSession.turnCount)
    /\ Len(LastSession.extractedIntelligence.phoneNumbers)
         > Len(last.before.extractedIntelligence.phoneNumbers)

\* C17: a request for session A leaves every other session B as it was:
\* B's turnCount, history, intelligence, confidence and reported flag, and
\* the reports sent for B.
C17_OtherSessionsUntouched ==
    [][\A sid \in DOMAIN sessions :
          sid # last'.sid =>
              /\ sessions'[sid] = sessions[sid]
              /\ callbacks'[sid] = callbacks[sid]
              /\ inbound'[sid] = inbound[sid]]_vars

\* session s2 holds evidence and a positive confidence, and the latest
\* request was a completed turn of session s1 on a message with evidence
C17_Witness ==
    /\ DOMAIN sessions = SessionIds
    /\ last.sid = "s1" /\ last.outcome = "completed"
    /\ LastSession.confidence > last.before.confidence
    /\ sessions["s2"].confidence > 0
    /\ Len(sessions["s2"].extractedIntelligence.upiIds) > 0
    /\ sessions["s2"].turnCount = 2 * Len(inbound["s2"])

\* C18: a request whose x-api-key differs from the configured key is
\* answered 401; it creates no session and changes no session state.
C18_WrongKeyRejected ==
    [][\A session_id \in SessionIds, text \in Messages :
          honeypot_message(session_id, "wrong", "scammer", text, Replies) =>
              /\ last'.status = 401
              /\ last'.outcome = "rejected"
              /\ sessions' = sessions
              /\ callbacks' = callbacks
              /\ inbound' = inbound
              /\ enhanced_agent' = enhanced_agent]_vars

\* a rejected request that named a session the store does not hold, after
\* another session had a turn
C18_Witness ==
    /\ last.status = 401
    /\ last.sid \notin DOMAIN sessions
    /\ DOMAIN sessions # {}
    /\ Requests >= 1

\* C19 (as stated): a request with no x-api-key header is answered 401 and
\* is not processed as a turn.
C19_MissingKeyRejected ==
    [][\A session_id \in SessionIds, text \in Messages :
          honeypot_message(session_id, "None", "scammer", text, Replies) =>
              /\ last'.status = 401
              /\ sessions' = sessions
              /\ inbound' = inbound]_vars

\* C20: a request whose body lacks sessionId or message.text is answered
\* 422 before the handler runs: no session is created and no session's
\* turnCount, history, intelligence or confidence changes.
C20_MalformedRejected ==
    [][\A body \in Bodies, x_api_key \in ApiKeys :
          (/\ ~HasSessionId(body) \/ ~HasMessage(body)
           /\ post_honeypot_message(body, x_api_key, Replies)) =>
              /\ last'.status = 422
              /\ sessions' = sessions
              /\ inbound' = inbound
              /\ callbacks' = callbacks]_vars

\* a 422 answered to a body that named a session the store does not hold,
\* after another session had a turn
C20_Witness ==
    /\ last.status = 422
    /\ last.sid \in SessionIds \ DOMAIN sessions
    /\ DOMAIN sessions # {}

\* C21: a well-formed request with the configured key is answered 200 with
\* status "success" (HoneypotResponse is built in no other way) and a
\* non-empty reply, on every turn, also when detect_scam, the reply
\* generator or the report dispatch fails: only a request with another key
\* is answered 401, only a malformed body 422, and nothing else is answered
\* otherwise than 200.
C21_AlwaysSuccessReply ==
    [][/\ last'.status \in {200, 401, 422}
       /\ last'.status = 401 =>
             \E session_id \in SessionIds, text \in Messages :
                 honeypot_message(session_id, "wrong", "scammer", text, Replies)
       /\ last'.status = 422 =>
             \E body \in Bodies, x_api_key \in ApiKeys :
                 /\ ~RequestPayload(body).ok
                 /\ post_honeypot_message(body, x_api_key, Replies)
       /\ last'.status = 200 =>
             /\ last'.reply # ""
             /\ last'.outcome \in {"detect_raised", "agent_raised", "completed"}
             /\ last'.outcome = "completed" =>
                   last'.reply = sessions'[last'.sid].conversationHistory[
                                    sessions'[last'.sid].turnCount].text]_vars

\* a second turn of a session answered 200 with the placeholder after
\* detect_scam raised
C21_Witness ==
    /\ last.status = 200
    /\ last.outcome = "detect_raised"
    /\ last.reply = PlaceholderReply
    /\ Len(inbound[last.sid]) = 2

\* C22 (as stated): a session that was given one phone number bare and in a
\* country-coded form holds exactly one entry for it in phoneNumbers.
C22_OneCanonicalPhone ==
    \A sid \in DOMAIN sessions :
        (/\ MsgPhoneBare \in Range(inbound[sid])
         /\ Range(inbound[sid]) \cap {MsgPhoneCoded, MsgPhoneJoined} # {})
            => Len(sessions[sid].extractedIntelligence.phoneNumbers) = 1

\* C23 (as stated): the scenario message as turn 1 of a fresh session leaves
\* the handle in upiIds, the 16-digit string in bankAccounts, an urgency tag
\* and a threat tag in tacticPatterns, and a confidence above 0.
C23_ScenarioTurnOne ==
    (LastWasTurn /\ last.text = MsgScenario /\ Len(inbound[last.sid]) = 1) =>
        LET intel == LastSession.extractedIntelligence
        IN  /\ "scammer@paytm" \in Range(intel.upiIds)
            /\ "1234567890123456" \in Range(intel.bankAccounts)
            /\ "high_urgency_tactics" \in Range(intel.tacticPatterns)
            /\ "legal_threat_tactics" \in Range(intel.tacticPatterns)
            /\ LastSession.confidence > 0

\* the order in which the documentation has the types tested
DocumentedOrder ==
    << "upi_fraud", "banking_fraud", "credential_theft", "phishing_attack",
       "prize_scam", "investment_scam" >>

\* the first type of the order that the text matches (0 when none does)
FirstMatch(order, text) ==
    IF \E i \in 1..Len(order) : TypeMatches(order[i], text)
    THEN CHOOSE i \in 1..Len(order) :
            /\ TypeMatches(order[i], text)
            /\ \A j \in 1..(i - 1) : ~TypeMatches(order[j], text)
    ELSE 0

\* C24: a message is classified as the first type it matches in the order
\* payment handle, banking, OTP/credential, link, prize, investment
C24_DocumentedPriority ==
    (intelligence.extracted
        /\ FirstMatch(DocumentedOrder, intelligence.message) > 0) =>
        intelligence.scamType =
            DocumentedOrder[FirstMatch(DocumentedOrder, intelligence.message)]

\* every word the branch "Classify scam type" of detect_scam tests for
LegacyTypeWords ==
    << "upi", "paytm", "phonepe", "gpay", "kyc", "account", "bank",
       "lottery", "prize", "won", "winner", "otp", "verification", "code" >>

\* the latest turn's message matches no category of detect_scam
LastMatchesNoType ==
    /\ ~ContainsAny(Lower(last.text), LegacyTypeWords)
    /\ scan[last.text].urls = <<>>

\* C25: a turn on a still unclassified session whose message matches no
\* category completes and leaves the session's scamType at banking_fraud
C25_DefaultIsBankingFraud ==
    (/\ LastWasTurn
     /\ last.before.extractedIntelligence.scamType = "unknown"
     /\ LastMatchesNoType) =>
        /\ last.outcome # "detect_raised"
        /\ LastSession.extractedIntelligence.scamType = "banking_fraud"

\* C26: after every turn the stored sophisticationLevel is
\* calculate_sophistication of the session as the turn left it
C26_LevelOfEndOfTurnState ==
    LastWasTurn =>
        LastSession.extractedIntelligence.sophisticationLevel =
            calculate_sophistication(LastSession)

\* the session of the latest turn as line 147 of the handler saw it: the
\* reply, appended afterwards, adds one to turnCount and no scammer message
LastSessionAtScoring == [LastSession EXCEPT !.turnCount = @ - 1]

TierRank(level) == CASE level = "low" -> 1 [] level = "medium" -> 2 [] level = "high" -> 3

\* C27: the level a completed turn stores is low below 4 points, medium
\* from 4 to 7 and high from 8 on; calculate_sophistication always gives one
\* of the three tiers, and of two sessions the one with the higher score
\* never has the lower tier
C27_TierMonotonic ==
    /\ (LastWasTurn /\ last.outcome = "completed") =>
          LET score == SophScore(LastSessionAtScoring)
              level == LastSession.extractedIntelligence.sophisticationLevel
          IN  /\ score < 4 => level = "low"
              /\ (score >= 4 /\ score < 8) => level = "medium"
              /\ score >= 8 => level = "high"
    /\ \A a \in DOMAIN sessions :
          calculate_sophistication(sessions[a]) \in {"low", "medium", "high"}
    /\ \A a, b \in DOMAIN sessions :
          SophScore(sessions[a]) <= SophScore(sessions[b]) =>
              TierRank(calculate_sophistication(sessions[a]))
                  <= TierRank(calculate_sophistication(sessions[b]))

\* a completed turn stored "high" while the other session's level is "low"
C27_Witness ==
    /\ LastWasTurn /\ last.outcome = "completed"
    /\ LastSession.extractedIntelligence.sophisticationLevel = "high"
    /\ SophScore(LastSessionAtScoring) = 8
    /\ \E a \in DOMAIN sessions :
          sessions[a].extractedIntelligence.sophisticationLevel = "low"

\* the texts of the scammer's entries of a history, in order
ScammerTexts(history) ==
    LET scammer == SelectSeq(history, LAMBDA msg : msg.sender = "scammer")
    IN  [i \in 1..Len(scammer) |-> scammer[i].text]

\* what the messages a session received hold of one kind of evidence
FoundIn(texts, kind) == UNION { Range(scan[texts[i]][kind]) : i \in 1..Len(texts) }

\* C28: a session exists from the first message for its id on; it starts
\* with turnCount 0, an empty history, empty collections, scamType unknown
\* and confidence 0, and every later request finds it with all it has
\* accumulated, never a fresh or reset one
C28_CreatedOnceAndKept ==
    \A sid \in SessionIds :
        /\ sid \in DOMAIN sessions <=> inbound[sid] # <<>>
        /\ sid \in DOMAIN sessions =>
              LET session == sessions[sid]
                  intel == session.extractedIntelligence
              IN  /\ session.sessionId = sid
                  /\ ScammerTexts(session.conversationHistory) = inbound[sid]
                  /\ session.turnCount = Len(session.conversationHistory)
                  /\ Range(intel.upiIds) = FoundIn(inbound[sid], "upis")
                  /\ Range(intel.bankAccounts) = FoundIn(inbound[sid], "banks")
                  /\ Range(intel.phoneNumbers) = FoundIn(inbound[sid], "phones")
                  /\ (Len(inbound[sid]) = 1 /\ last.sid = sid
                        /\ last.outcome = "detect_raised") =>
                        /\ intel.scamType = "unknown"
                        /\ session.confidence = 0
                        /\ session.turnCount = 1

\* a session on its third message, holding the evidence of an earlier one
C28_Witness ==
    /\ LastWasTurn
    /\ Len(inbound[last.sid]) = 3
    /\ last.text = MsgHello
    /\ LastSession.extractedIntelligence.upiIds # <<>>
    /\ Len(LastSession.conversationHistory) >= 5

\* the history of a session before a step (empty when the step creates it)
HistoryBefore(sid) ==
    IF sid \in DOMAIN sessions THEN sessions[sid].conversationHistory ELSE <<>>

\* C29: every step keeps each session and the entries of its history in
\* place and adds entries only at the end: the inbound message of the
\* turn, then the reply of that turn
C29_HistoryAppendOnly ==
    [][/\ DOMAIN sessions \subseteq DOMAIN sessions'
       /\ \A sid \in DOMAIN sessions' :
            LET old == HistoryBefore(sid)
                new == sessions'[sid].conversationHistory
                added == SubSeq(new, Len(old) + 1, Len(new))
            IN  /\ IsPrefix(old, new)
                /\ \/ added = <<>>
                   \/ /\ sid = last'.sid
                      /\ added[1] = [sender |-> "scammer", text |-> last'.text]
                      /\ \/ Len(added) = 1
                         \/ /\ Len(added) = 2
                            /\ last'.outcome = "completed"
                            /\ added[2] = [sender |-> "user", text |-> last'.reply]]_vars

\* a second completed turn of a session: message, reply, message, reply
C29_Witness ==
    /\ LastWasTurn /\ last.outcome = "completed"
    /\ Len(LastSession.conversationHistory) = 4
    /\ LastSession.conversationHistory[1].sender = "scammer"
    /\ LastSession.conversationHistory[2].sender = "user"
    /\ LastSession.conversationHistory[3] = [sender |-> "scammer", text |-> last.text]
    /\ LastSession.conversationHistory[4] = [sender |-> "user", text |-> last.reply]

\* C30: the account numbers the detector returns hold digits only, and no
\* two of them are the same account in different surface forms
C30_AccountsNormalized ==
    intelligence.extracted =>
        \A i, j \in 1..Len(intelligence.bankAccounts) :
            /\ AllDigits(intelligence.bankAccounts[i])
            /\ DigitsOf(intelligence.bankAccounts[i])
                  = DigitsOf(intelligence.bankAccounts[j]) => i = j

\* C31: every link the detector returns begins with an explicit scheme
C31_LinksCarryScheme ==
    intelligence.extracted =>
        \A i \in 1..Len(intelligence.phishingLinks) :
            UrlPrefixAt(intelligence.phishingLinks[i], 1) > 0

\* C32: after a turn the session holds every tactic tag and every
\* impersonation claim that fires on the turn's message
C32_FiredTagsAreKept ==
    LastWasTurn =>
        LET sc == scan[last.text]
            intel == LastSession.extractedIntelligence
        IN  /\ sc.urgency => "high_urgency_tactics" \in Range(intel.tacticPatterns)
            /\ sc.legal => "legal_threat_tactics" \in Range(intel.tacticPatterns)
            /\ sc.authority => "authority_impersonation" \in Range(intel.tacticPatterns)
            /\ sc.bankName => "bank_official" \in Range(intel.impersonationClaims)
            /\ sc.gov => "government_official" \in Range(intel.impersonationClaims)
            /\ sc.lottery => "lottery_organizer" \in Range(intel.impersonationClaims)

\* what extraction and scoring leave in a session: the collections, the
\* scamType, the government_official key and the confidence
Evidence(session) ==
    [ intel |-> [session.extractedIntelligence EXCEPT !.sophisticationLevel = "-"],
      confidence |-> session.confidence ]

\* detect_scam and the assignment of its confidence, run on the texts in
\* order with no reply, no agent and no dispatch in between
RECURSIVE Replayed(_, _)
Replayed(session, texts) ==
    IF texts = <<>> THEN session
    ELSE LET d == detect_scam(session, Head(texts))
             s == Merged(session, d)
         IN  Replayed(IF d.raised THEN s ELSE [s EXCEPT !.confidence = d.confidence],
                      Tail(texts))

\* C33: the evidence a session holds is a function of the messages it
\* received, so two sessions that received the same messages hold the same
\* collections, scamType and confidence, whatever the replies and
\* dispatches of their turns were
C33_EvidenceDeterministic ==
    /\ \A a \in DOMAIN sessions :
          Evidence(sessions[a]) = Evidence(Replayed(NewSession(a), inbound[a]))
    /\ \A a, b \in DOMAIN sessions :
          inbound[a] = inbound[b] =>
              Evidence(sessions[a]) = Evidence(sessions[b])

\* two sessions that received the same message and got different replies
C33_Witness ==
    /\ DOMAIN sessions = SessionIds
    /\ inbound["s1"] = inbound["s2"]
    /\ inbound["s1"] = <<MsgScenario>>
    /\ Len(sessions["s1"].conversationHistory) = 2
    /\ Len(sessions["s2"].conversationHistory) = 2
    /\ sessions["s1"].conversationHistory[2].text
          # sessions["s2"].conversationHistory[2].text

\* C34: in every state, also between the steps of a handler, the history
\* of a session has turnCount entries
C34_HistoryLengthIsTurnCount ==
    \A sid \in DOMAIN sessions :
        Len(sessions[sid].conversationHistory) = sessions[sid].turnCount

\* a handler between the append of its inbound message and its reply, on a
\* session that already holds a completed turn
C34_Witness ==
    \E r \in Reqs :
        /\ InsideTurn(r)
        /\ tasks[r].sid \in DOMAIN sessions
        /\ sessions[tasks[r].sid].turnCount = 3
        /\ Len(sessions[tasks[r].sid].conversationHistory) = 3

\* C35: extractedIntelligence keeps the keys it was created with (the one
\* key a turn can add is "government_official") and its list-valued keys
\* stay lists
C35_IntelligenceKeysFixed ==
    \A sid \in DOMAIN sessions :
        LET intel == sessions[sid].extractedIntelligence
        IN  /\ intel.government_official_key
                  = NewSession(sid).extractedIntelligence.government_official_key
            /\ DOMAIN intel = DOMAIN NewSession(sid).extractedIntelligence
            /\ \A k \in ListKeys : DOMAIN intel[k] = 1..Len(intel[k])

\* the items the latest turn added to a collection
AddedTo(k) ==
    Len(LastSession.extractedIntelligence[k])
        - Len(last.before.extractedIntelligence[k])

\* the weights of the handles, accounts, links and numbers the latest turn
\* added
AddedWeight ==
    UpiWeight * AddedTo("upiIds") + BankWeight * AddedTo("bankAccounts")
        + UrlWeight * AddedTo("phishingLinks") + PhoneWeight * AddedTo("phoneNumbers")

\* C36: a turn that adds a handle, an account, a link or a number to its
\* session stores a confidence that includes the weight of what it added,
\* up to the clamp
C36_WeightOfMergedItemsStored ==
    (LastWasTurn /\ AddedWeight > 0) =>
        LastSession.confidence
            >= Min(MaxConfidence, last.before.confidence + AddedWeight)

\* what detect_scam did on the latest turn (it reads the collections and
\* the confidence of the session, which the inbound append leaves alone)
LastDetection == detect_scam(last.before, last.text)

\* detect_scam returned on the latest turn
LastReturned == LastWasTurn /\ ~LastDetection.raised

\* C37: scamDetected is reported exactly when the reported confidence
\* exceeds 0.3, and a turn that follows a turn of its session which
\* reported scamDetected reports it too
C37_DetectedAboveThresholdForGood ==
    [][/\ LastReturned' =>
            (LastDetection'.scamDetected <=> LastDetection'.confidence > ScamThreshold)
       /\ (LastReturned /\ LastDetection.scamDetected
              /\ LastReturned' /\ last'.sid = last.sid) =>
            LastDetection'.scamDetected]_vars

\* C38: the first request of a session dispatches no report: at its gate
\* turnCount is at most 2, below every minimum of the gate
C38_NoDispatchOnFirstRequest ==
    (LastWasTurn /\ Len(inbound[last.sid]) = 1) =>
        /\ ~last.gate
        /\ ~last.dispatched
        /\ callbacks[last.sid] = <<>>
        /\ ~LastSession.callback_sent
        /\ LastSession.turnCount <= 2

\* a first request that completed with the confidence at its maximum
C38_Witness ==
    /\ LastWasTurn /\ Len(inbound[last.sid]) = 1
    /\ last.outcome = "completed"
    /\ LastSession.confidence = MaxConfidence
    /\ LastSession.turnCount = 2

\* C39: callback_sent is set only after a send_final_callback call of the
\* session returned True; a dispatch whose transport raised leaves it
\* false, one that got a response sets it whatever the status code
C39_FlagFollowsTransport ==
    /\ \A sid \in DOMAIN sessions :
          sessions[sid].callback_sent =>
              \E i \in 1..Len(callbacks[sid]) : callbacks[sid][i]
    /\ (LastWasTurn /\ last.dispatched) =>
          /\ ~last.before.callback_sent
          /\ last.transport = "ConnectError" => ~LastSession.callback_sent
          /\ last.transport \in {"200", "500"} => LastSession.callback_sent

\* a dispatch answered with status 500 that set the flag
C39_Witness ==
    /\ LastWasTurn /\ last.dispatched
    /\ last.transport = "500"
    /\ LastSession.callback_sent
    /\ LastCallback(last.sid)
====
